---- MODULE Spec2Model ----
(***************************************************************************)
(* Session / authentication subsystem of backend/server.py:                *)
(* the in-memory session registry (_session_registry), the revocation      *)
(* cache (_revoked_tokens) and the portal bridge cache                     *)
(* (_portal_session_cache), with the operations that run under             *)
(* _session_lock.  Every operation holds the lock from its first to its    *)
(* last statement, so each one is a single atomic action.  Time is an      *)
(* integer clock read once per operation (now = _utcnow()).                *)
(***************************************************************************)
EXTENDS Integers, Sequences, FiniteSets, TLC

\* ---------------------------------------------------------------- bounds
NumUsers == 2
MaxTime == 2

\* ------------------------------------------------ configuration constants
\* The idle timeout and the capacity are scaled down to the model's clock
\* and token universe (capacity = 2 is the capacity of the spec's scenario).
SESSION_IDLE_TIMEOUT_MINUTES == 2
MAX_CONCURRENT_SESSIONS == 2

None == -1

\* one token more than the registry can hold, so that insertions overflow it
NumTokens == MAX_CONCURRENT_SESSIONS + 1

Tokens == 1..NumTokens
Users == 1..NumUsers
Times == 0..MaxTime
\* expires_at arguments and hints offered to the operations: one value the
\* clock reaches and passes, one it never reaches
Expiries == {1, MaxTime + 1}

VARIABLES
    now,        \* the value _utcnow() returns
    registry,   \* _session_registry, in dict (insertion) order
    revoked,    \* _revoked_tokens: token -> horizon
    portal,     \* _portal_session_cache: token -> entry
    last,       \* history: the operation that ran last and its outcome
    PORTAL_AUTH_ENABLED,  \* the ENABLE_PORTAL_AUTH_BRIDGE setting
    lock,       \* _session_lock: the request holding it, or None
    request,    \* the get_current_user calls in flight: position and locals
    clock,      \* int(time.time()) of the register portal (tokens.py)
    session_token,  \* the token issue_session_token returned last
    issued,     \* history: the arguments and the time of that call
    decoded     \* history: the last decode_session_token call and its result

vars == <<now, registry, revoked, portal, last, PORTAL_AUTH_ENABLED, lock, request,
          clock, session_token, issued, decoded>>

\* the portal token codec's part of the state
codecvars == <<clock, session_token, issued, decoded>>

\* what the registry-level specification leaves alone
authvars == <<PORTAL_AUTH_ENABLED, lock, request>>

\* ------------------------------------------------------- dict primitives
Restrict(f, S) == [x \in S |-> f[x]]

Pop(f, k) == Restrict(f, DOMAIN f \ {k})

Put(f, k, v) == [x \in (DOMAIN f) \cup {k} |-> IF x = k THEN v ELSE f[x]]

EmptyDict == [x \in {} |-> None]

SessionInfo(user_id, token, expires_at, last_seen) ==
    [user_id |-> user_id, token |-> token,
     expires_at |-> expires_at, last_seen |-> last_seen]

PortalSessionCacheEntry(user_id, expires_at) ==
    [user_id |-> user_id, expires_at |-> expires_at]

RegTokens(reg) == {reg[i].token : i \in DOMAIN reg}

\* _session_registry.get(token)
RegHas(reg, token) == token \in RegTokens(reg)

RegGet(reg, token) == reg[CHOOSE i \in DOMAIN reg : reg[i].token = token]

\* _session_registry.pop(token, None)
RegPop(reg, token) == SelectSeq(reg, LAMBDA s : s.token # token)

\* _session_registry[info.token] = info : an existing key keeps its place,
\* a new key goes last
RegPut(reg, info) ==
    IF info.token \in RegTokens(reg)
    THEN [i \in DOMAIN reg |-> IF reg[i].token = info.token THEN info ELSE reg[i]]
    ELSE Append(reg, info)

\* ------------------------------------------------------ token attributes
\* What PyJWT.decode(token, SECRET_KEY, options={"verify_exp": False})
\* recovers as the exp claim: token 1 is not a locally signed token (a
\* portal token), the others are local tokens with a fixed exp claim.
JwtExp(token) == IF token = 1 THEN None ELSE 2 * (token - 1)

\* ------------------------------------------------------------- helpers
\* mutant: the idle window is one tick too long
IdleDeadlineLate(info) == info.last_seen + SESSION_IDLE_TIMEOUT_MINUTES + 1

_idle_deadline(info) == info.last_seen + SESSION_IDLE_TIMEOUT_MINUTES

_remember_revoked_locked(rev, token, expires_at, n) ==
    LET e == IF expires_at = None
             THEN n + SESSION_IDLE_TIMEOUT_MINUTES
             ELSE expires_at
    IN  IF e <= n THEN rev ELSE Put(rev, token, e)

\* mutant: the comparison is strict, an entry whose horizon is now survives
PruneRevokedStrict(rev, n) ==
    Restrict(rev, {t \in DOMAIN rev : ~(n > rev[t])})

\* mutant: the comparison is reversed, the live entries are the ones dropped
PruneRevokedReversed(rev, n) ==
    Restrict(rev, {t \in DOMAIN rev : ~(n <= rev[t])})

_prune_revoked_locked(rev, n) ==
    Restrict(rev, {t \in DOMAIN rev : ~(n >= rev[t])})

\* the loop "for token, info in ...: _remember_revoked_locked(token, info.expires_at, now)"
RECURSIVE RememberAll(_, _, _)
RememberAll(rev, infos, n) ==
    IF infos = << >> THEN rev
    ELSE RememberAll(
            _remember_revoked_locked(rev, Head(infos).token, Head(infos).expires_at, n),
            Tail(infos), n)

_prune_sessions_locked(reg, rev, n) ==
    LET isExpired(info) == n >= info.expires_at \/ n >= _idle_deadline(info)
        expired_tokens == SelectSeq(reg, isExpired)
    IN  [reg |-> SelectSeq(reg, LAMBDA info : ~isExpired(info)),
         rev |-> RememberAll(rev, expired_tokens, n)]

\* mutant: max instead of min, the most recently seen entry is the victim
StalestIsNewest(reg) ==
    LET i == CHOOSE i \in DOMAIN reg :
                /\ \A j \in DOMAIN reg : reg[i].last_seen >= reg[j].last_seen
                /\ \A j \in (i + 1)..Len(reg) : reg[j].last_seen < reg[i].last_seen
    IN  reg[i]

\* min(_session_registry.values(), key=last_seen): the first entry, in dict
\* order, whose last_seen is minimal
Stalest(reg) ==
    LET i == CHOOSE i \in DOMAIN reg :
                /\ \A j \in DOMAIN reg : reg[i].last_seen <= reg[j].last_seen
                /\ \A j \in 1..(i - 1) : reg[j].last_seen > reg[i].last_seen
    IN  reg[i]

\* mutant: the stale revocation record of the stored token is not cleared
StoreKeepsRevocation(reg, rev, info, n) ==
    LET reg1 == RegPut(reg, info)
    IN  IF Len(reg1) > MAX_CONCURRENT_SESSIONS
        THEN LET stalest_info == Stalest(reg1)
             IN  [reg |-> RegPop(reg1, stalest_info.token),
                  rev |-> _remember_revoked_locked(rev, stalest_info.token,
                                                   stalest_info.expires_at, n),
                  evicted |-> stalest_info.token]
        ELSE [reg |-> reg1, rev |-> rev, evicted |-> None]

\* mutant: the capacity check is off by one
StoreOverCapacity(reg, rev, info, n) ==
    LET reg1 == RegPut(reg, info)
        rev1 == Pop(rev, info.token)
    IN  IF Len(reg1) > MAX_CONCURRENT_SESSIONS + 1
        THEN LET stalest_info == Stalest(reg1)
             IN  [reg |-> RegPop(reg1, stalest_info.token),
                  rev |-> _remember_revoked_locked(rev1, stalest_info.token,
                                                   stalest_info.expires_at, n),
                  evicted |-> stalest_info.token]
        ELSE [reg |-> reg1, rev |-> rev1, evicted |-> None]

_store_session_locked(reg, rev, info, n) ==
    LET reg1 == RegPut(reg, info)
        rev1 == Pop(rev, info.token)
    IN  IF Len(reg1) > MAX_CONCURRENT_SESSIONS
        THEN LET stalest_info == Stalest(reg1)
             IN  [reg |-> RegPop(reg1, stalest_info.token),
                  rev |-> _remember_revoked_locked(rev1, stalest_info.token,
                                                   stalest_info.expires_at, n),
                  evicted |-> stalest_info.token]
        ELSE [reg |-> reg1, rev |-> rev1, evicted |-> None]

\* --------------------------------------------------- registry operations
\* Each returns the new registry, the new revocation cache and the outcome:
\*   "ok"        the call returned
\*   "inactive"  HTTPException 401 "Session is no longer active"
\*   "expired"   HTTPException 401 "Session has expired"
\* mutant: an entry the token already has keeps its last_seen
RegisterKeepsLastSeen(reg, rev, user_id, token, expires_at, n) ==
    LET p  == _prune_sessions_locked(reg, rev, n)
        rv == _prune_revoked_locked(p.rev, n)
        seen == IF RegHas(p.reg, token) THEN RegGet(p.reg, token).last_seen ELSE n
        st == _store_session_locked(p.reg, rv,
                                    SessionInfo(user_id, token, expires_at, seen), n)
    IN  [reg |-> st.reg, rev |-> st.rev, outcome |-> "ok", evicted |-> st.evicted]

register_session(reg, rev, user_id, token, expires_at, n) ==
    LET p  == _prune_sessions_locked(reg, rev, n)
        rv == _prune_revoked_locked(p.rev, n)
        st == _store_session_locked(p.reg, rv,
                                    SessionInfo(user_id, token, expires_at, n), n)
    IN  [reg |-> st.reg, rev |-> st.rev, outcome |-> "ok", evicted |-> st.evicted]

\* mutant: no subject check, the session is handed to the caller's subject
ValidateRebinds(reg, rev, token, user_id, expires_at, n) ==
    LET p   == _prune_sessions_locked(reg, rev, n)
        rv  == _prune_revoked_locked(p.rev, n)
        revoked_expires_at == IF token \in DOMAIN rv THEN rv[token] ELSE None
    IN  IF revoked_expires_at # None /\ revoked_expires_at > n
        THEN [reg |-> p.reg, rev |-> rv, outcome |-> "inactive", evicted |-> None]
        ELSE
        LET rv2   == Pop(rv, token)
            present == RegHas(p.reg, token)
        IN  IF ~present /\ expires_at = None
            THEN [reg |-> p.reg, rev |-> rv2, outcome |-> "inactive", evicted |-> None]
            ELSE
            LET info == IF ~present
                        THEN SessionInfo(user_id, token, expires_at, n)
                        ELSE [RegGet(p.reg, token) EXCEPT !.user_id = user_id]
                st   == IF ~present
                        THEN _store_session_locked(p.reg, rv2, info, n)
                        ELSE [reg |-> p.reg, rev |-> rv2, evicted |-> None]
            IN  IF n >= info.expires_at \/ n >= _idle_deadline(info)
                THEN [reg |-> RegPop(st.reg, token),
                      rev |-> _remember_revoked_locked(st.rev, token, info.expires_at, n),
                      outcome |-> "expired", evicted |-> st.evicted]
                ELSE [reg |-> RegPut(st.reg, [info EXCEPT !.last_seen = n]),
                      rev |-> st.rev, outcome |-> "ok", evicted |-> st.evicted]

\* mutant: the expiry test is skipped for a session the call has just
\* created, a hint the clock has reached is accepted
ValidateTrustsHint(reg, rev, token, user_id, expires_at, n) ==
    LET p   == _prune_sessions_locked(reg, rev, n)
        rv  == _prune_revoked_locked(p.rev, n)
        revoked_expires_at == IF token \in DOMAIN rv THEN rv[token] ELSE None
    IN  IF revoked_expires_at # None /\ revoked_expires_at > n
        THEN [reg |-> p.reg, rev |-> rv, outcome |-> "inactive", evicted |-> None]
        ELSE
        LET rv2   == Pop(rv, token)
            present == RegHas(p.reg, token)
        IN  IF ~present /\ expires_at = None
            THEN [reg |-> p.reg, rev |-> rv2, outcome |-> "inactive", evicted |-> None]
            ELSE IF present /\ RegGet(p.reg, token).user_id # user_id
            THEN [reg |-> p.reg, rev |-> rv2, outcome |-> "inactive", evicted |-> None]
            ELSE
            LET info == IF ~present
                        THEN SessionInfo(user_id, token, expires_at, n)
                        ELSE RegGet(p.reg, token)
                st   == IF ~present
                        THEN _store_session_locked(p.reg, rv2, info, n)
                        ELSE [reg |-> p.reg, rev |-> rv2, evicted |-> None]
            IN  IF present /\ (n >= info.expires_at \/ n >= _idle_deadline(info))
                THEN [reg |-> RegPop(st.reg, token),
                      rev |-> _remember_revoked_locked(st.rev, token, info.expires_at, n),
                      outcome |-> "expired", evicted |-> st.evicted]
                ELSE [reg |-> RegPut(st.reg, [info EXCEPT !.last_seen = n]),
                      rev |-> st.rev, outcome |-> "ok", evicted |-> st.evicted]

\* mutant: a touch with a hint moves the session's expiry to the hint
ValidateTakesHint(reg, rev, token, user_id, expires_at, n) ==
    LET p   == _prune_sessions_locked(reg, rev, n)
        rv  == _prune_revoked_locked(p.rev, n)
        revoked_expires_at == IF token \in DOMAIN rv THEN rv[token] ELSE None
    IN  IF revoked_expires_at # None /\ revoked_expires_at > n
        THEN [reg |-> p.reg, rev |-> rv, outcome |-> "inactive", evicted |-> None]
        ELSE
        LET rv2   == Pop(rv, token)
            present == RegHas(p.reg, token)
        IN  IF ~present /\ expires_at = None
            THEN [reg |-> p.reg, rev |-> rv2, outcome |-> "inactive", evicted |-> None]
            ELSE IF present /\ RegGet(p.reg, token).user_id # user_id
            THEN [reg |-> p.reg, rev |-> rv2, outcome |-> "inactive", evicted |-> None]
            ELSE
            LET info == IF ~present
                        THEN SessionInfo(user_id, token, expires_at, n)
                        ELSE RegGet(p.reg, token)
                st   == IF ~present
                        THEN _store_session_locked(p.reg, rv2, info, n)
                        ELSE [reg |-> p.reg, rev |-> rv2, evicted |-> None]
            IN  IF n >= info.expires_at \/ n >= _idle_deadline(info)
                THEN [reg |-> RegPop(st.reg, token),
                      rev |-> _remember_revoked_locked(st.rev, token, info.expires_at, n),
                      outcome |-> "expired", evicted |-> st.evicted]
                ELSE [reg |-> RegPut(st.reg, [info EXCEPT
                                         !.last_seen = n,
                                         !.expires_at = IF expires_at # None
                                                        THEN expires_at ELSE @]),
                      rev |-> st.rev, outcome |-> "ok", evicted |-> st.evicted]

validate_and_touch_session(reg, rev, token, user_id, expires_at, n) ==
    LET p   == _prune_sessions_locked(reg, rev, n)
        rv  == _prune_revoked_locked(p.rev, n)
        revoked_expires_at == IF token \in DOMAIN rv THEN rv[token] ELSE None
    IN  IF revoked_expires_at # None /\ revoked_expires_at > n
        THEN [reg |-> p.reg, rev |-> rv, outcome |-> "inactive", evicted |-> None]
        ELSE
        LET rv2   == Pop(rv, token)
            present == RegHas(p.reg, token)
        IN  IF ~present /\ expires_at = None
            THEN [reg |-> p.reg, rev |-> rv2, outcome |-> "inactive", evicted |-> None]
            ELSE IF present /\ RegGet(p.reg, token).user_id # user_id
            THEN [reg |-> p.reg, rev |-> rv2, outcome |-> "inactive", evicted |-> None]
            ELSE
            LET info == IF ~present
                        THEN SessionInfo(user_id, token, expires_at, n)
                        ELSE RegGet(p.reg, token)
                st   == IF ~present
                        THEN _store_session_locked(p.reg, rv2, info, n)
                        ELSE [reg |-> p.reg, rev |-> rv2, evicted |-> None]
            IN  IF n >= info.expires_at \/ n >= _idle_deadline(info)
                THEN [reg |-> RegPop(st.reg, token),
                      rev |-> _remember_revoked_locked(st.rev, token, info.expires_at, n),
                      outcome |-> "expired", evicted |-> st.evicted]
                ELSE [reg |-> RegPut(st.reg, [info EXCEPT !.last_seen = n]),
                      rev |-> st.rev, outcome |-> "ok", evicted |-> st.evicted]

\* mutant: the comparison is on the token instead of the owner, a session
\* of another user whose token equals the id goes and the user's own stay
RevokeUserByToken(reg, rev, pc, user_id, n) ==
    LET rv == _prune_revoked_locked(rev, n)
        tokens_to_remove == SelectSeq(reg, LAMBDA info : info.token = user_id)
    IN  [reg |-> SelectSeq(reg, LAMBDA info : info.token # user_id),
         pc  |-> Restrict(pc, DOMAIN pc \ RegTokens(tokens_to_remove)),
         rev |-> RememberAll(rv, tokens_to_remove, n)]

revoke_user_sessions(reg, rev, pc, user_id, n) ==
    LET rv == _prune_revoked_locked(rev, n)
        tokens_to_remove == SelectSeq(reg, LAMBDA info : info.user_id = user_id)
    IN  [reg |-> SelectSeq(reg, LAMBDA info : info.user_id # user_id),
         pc  |-> Restrict(pc, DOMAIN pc \ RegTokens(tokens_to_remove)),
         rev |-> RememberAll(rv, tokens_to_remove, n)]

\* mutant: the revocation is recorded but the session and the portal cache
\* entry are left in place
RevokeKeepsSession(reg, rev, pc, token, n) ==
    LET rv   == _prune_revoked_locked(rev, n)
        expires_at == IF RegHas(reg, token)
                      THEN RegGet(reg, token).expires_at
                      ELSE JwtExp(token)
    IN  [reg |-> reg,
         pc  |-> pc,
         rev |-> IF expires_at # None /\ expires_at <= n
                 THEN rv
                 ELSE _remember_revoked_locked(rv, token, expires_at, n)]

\* mutant: the expiry of the removed session is not used, the horizon
\* always comes from the token
RevokeIgnoresSessionExpiry(reg, rev, pc, token, n) ==
    LET rv   == _prune_revoked_locked(rev, n)
        expires_at == JwtExp(token)
    IN  [reg |-> RegPop(reg, token),
         pc  |-> Pop(pc, token),
         rev |-> IF expires_at # None /\ expires_at <= n
                 THEN rv
                 ELSE _remember_revoked_locked(rv, token, expires_at, n)]

revoke_session_by_token(reg, rev, pc, token, n) ==
    LET rv   == _prune_revoked_locked(rev, n)
        expires_at == IF RegHas(reg, token)
                      THEN RegGet(reg, token).expires_at
                      ELSE JwtExp(token)
    IN  [reg |-> RegPop(reg, token),
         pc  |-> Pop(pc, token),
         rev |-> IF expires_at # None /\ expires_at <= n
                 THEN rv
                 ELSE _remember_revoked_locked(rv, token, expires_at, n)]

\* -------------------------------------------------- portal cache helpers
\* The portal cache is written and read by the bridge only; the registry
\* operations above touch it only to drop the entry of a revoked token.
_remember_portal_session(pc, token, user_id, expires_at) ==
    Put(pc, token, PortalSessionCacheEntry(user_id, expires_at))

\* mutant: the comparison is strict, an entry is still served at its expiry
CachedUserAtExpiry(pc, token, n) ==
    IF token \notin DOMAIN pc
    THEN [pc |-> pc, hit |-> FALSE, user_id |-> None, expires_at |-> None]
    ELSE IF n > pc[token].expires_at
    THEN [pc |-> Pop(pc, token), hit |-> FALSE, user_id |-> None, expires_at |-> None]
    ELSE [pc |-> pc, hit |-> TRUE,
          user_id |-> pc[token].user_id, expires_at |-> pc[token].expires_at]

_cached_portal_user(pc, token, n) ==
    IF token \notin DOMAIN pc
    THEN [pc |-> pc, hit |-> FALSE, user_id |-> None, expires_at |-> None]
    ELSE IF n >= pc[token].expires_at
    THEN [pc |-> Pop(pc, token), hit |-> FALSE, user_id |-> None, expires_at |-> None]
    ELSE [pc |-> pc, hit |-> TRUE,
          user_id |-> pc[token].user_id, expires_at |-> pc[token].expires_at]

\* ------------------------------------------------------- the authenticator
\* The bearer tokens a request presents.  Token 1 is a portal token
\* (PyJWT.decode raises JWTError), the others are locally signed, by
\* create_access_token({"sub": user.id}, expires): token 0 expired before
\* the clock starts, token 2 expires at JwtExp(2).
BearerTokens == {0, 1, 2}

\* payload.get("sub") of a locally signed token; token 3 is signed and
\* unexpired but carries no sub claim
JwtSub(token) == IF token = 3 THEN None ELSE (token % NumUsers) + 1

\* the locally signed tokens a request presents
LocalTokens == {0, 2, 3}

ACCESS_TOKEN_EXPIRE_MINUTES == 2

\* the tokens create_access_token({"sub": user.id}, expires) can return at n
Minted(n) == {t \in BearerTokens \ {1} :
                 JwtSub(t) # None /\ JwtExp(t) = n + ACCESS_TOKEN_EXPIRE_MINUTES}

\* mutant: an expired signature is reported as any other decoding error
DecodeExpiredAsInvalid(token, n) ==
    IF token = 1 \/ JwtExp(token) < n THEN "invalid" ELSE "ok"

\* PyJWT.decode(raw_token, SECRET_KEY, algorithms=[ALGORITHM]):
\*   "invalid"  JWTError (signature / format)
\*   "expired"  ExpiredSignatureError (exp < now)
\*   "ok"       the payload
PyJWT_decode(token, n) ==
    IF token = 1 THEN "invalid"
    ELSE IF JwtExp(token) < n THEN "expired"
    ELSE "ok"

Requests == {1, 2}

\* a get_current_user call: where it stands, its locals, and what it has
\* done so far (decoded .. revoke) for the properties below; cached is
\* what _cached_portal_user did ("hit", "miss", or "purged" an expired
\* entry), until the portal answers
IdleRequest ==
    [pc |-> "idle", token |-> None, user_id |-> None, expires_at |-> None,
     decoded |-> "none", bridge |-> FALSE, cached |-> "none", external |-> "none",
     validation |-> "none", live |-> FALSE, revoke |-> FALSE, result |-> "none"]

\* what _fetch_portal_session can return: None, or the session the portal
\* reports; _ensure_portal_user turns its user into a local user id
PortalResponses ==
    {[ok |-> FALSE, user_id |-> None, expires_at |-> None]}
    \cup {[ok |-> TRUE, user_id |-> u, expires_at |-> e] : u \in Users, e \in Expiries}

\* mutant: the exit of "async with _session_lock" leaves the lock held
LockKept(r) == r

\* the exit of "async with _session_lock"
_session_lock_release(r) == None

\* what a validation leaves (reg, rev) for the token, given the registry it
\* started from: a session of user_id that has not reached its expiry, no
\* revocation record, and if that session was there before the call, it was
\* within its idle window when the call examined it
SessionGood(before, reg, rev, token, user_id, n) ==
    /\ RegHas(reg, token)
    /\ RegGet(reg, token).user_id = user_id
    /\ n < RegGet(reg, token).expires_at
    /\ RegGet(reg, token).last_seen = n
    /\ token \notin DOMAIN rev
    /\ \A i \in DOMAIN before :
          (/\ before[i].token = token
           /\ before[i].user_id = user_id
           /\ before[i].expires_at = RegGet(reg, token).expires_at)
          => n < before[i].last_seen + SESSION_IDLE_TIMEOUT_MINUTES

\* ------------------------------------------------ the portal token codec
\* register/tokens.py.  A token is the sequence of its three dot-separated
\* segments; a JSON text is the sequence of its key/value pairs in the order
\* sort_keys writes them; a base64 segment carries what was encoded, and
\* anything else fails to decode; the HMAC digest is the pair it is a
\* function of.
JWT_HEADER == [alg |-> "HS256", typ |-> "JWT"]

SECRET_KEY == "settings.SECRET_KEY"

DEFAULT_TOKEN_TTL == 2

\* the keys of the model's JSON objects, in sorted order
SortedKeys == <<"alg", "exp", "iat", "sub", "typ">>

ClaimKeys == {"exp", "iat", "sub"}

ClaimValues == {1, 9}

\* the payloads issue_session_token is called with
ClaimSets == UNION {[S -> ClaimValues] : S \in SUBSET ClaimKeys}

\* dict.get(key)
Get(data, key) == IF key \in DOMAIN data THEN data[key] ELSE None

\* dict.setdefault(key, value)
SetDefault(data, key, value) == IF key \in DOMAIN data THEN data ELSE Put(data, key, value)

_json_dumps(data) ==
    LET keys == SelectSeq(SortedKeys, LAMBDA k : k \in DOMAIN data)
    IN  [i \in DOMAIN keys |-> <<keys[i], data[keys[i]]>>]

\* json.loads: the object of the pairs, the last pair of a key winning
json_loads(text) ==
    [k \in {text[i][1] : i \in DOMAIN text} |->
        text[CHOOSE i \in DOMAIN text :
                /\ text[i][1] = k
                /\ \A j \in DOMAIN text : text[j][1] = k => j <= i][2]]

_urlsafe_b64encode(data) == <<"b64", data>>

\* base64.urlsafe_b64decode raises on a segment that is not base64
IsBase64(value) == Len(value) = 2

_urlsafe_b64decode(value) == value[2]

HmacSha256(key, message) == [key |-> key, message |-> message]

_sign(message) == HmacSha256(SECRET_KEY, message)

\* mutant: exp is injected the way iat is, an exp of the payload is kept
IssueDefaultsExp(payload, expires_in, n) ==
    LET ttl == IF expires_in # None THEN expires_in ELSE DEFAULT_TOKEN_TTL
        token_payload == SetDefault(SetDefault(payload, "iat", n), "exp", n + ttl)
        header_segment == _urlsafe_b64encode(_json_dumps(JWT_HEADER))
        payload_segment == _urlsafe_b64encode(_json_dumps(token_payload))
        signing_input == <<header_segment, payload_segment>>
        signature_segment == _urlsafe_b64encode(_sign(signing_input))
    IN  <<header_segment, payload_segment, signature_segment>>

issue_session_token(payload, expires_in, n) ==
    LET ttl == IF expires_in # None THEN expires_in ELSE DEFAULT_TOKEN_TTL
        token_payload == Put(SetDefault(payload, "iat", n), "exp", n + ttl)
        header_segment == _urlsafe_b64encode(_json_dumps(JWT_HEADER))
        payload_segment == _urlsafe_b64encode(_json_dumps(token_payload))
        signing_input == <<header_segment, payload_segment>>
        signature_segment == _urlsafe_b64encode(_sign(signing_input))
    IN  <<header_segment, payload_segment, signature_segment>>

\* what decode_session_token returns or raises
TokenResult(kind, payload, issued_at, expires_at) ==
    [kind |-> kind, payload |-> payload, issued_at |-> issued_at, expires_at |-> expires_at]

InvalidToken == TokenResult("InvalidToken", EmptyDict, None, None)

ExpiredToken == TokenResult("ExpiredToken", EmptyDict, None, None)

\* mutant: the comparison is not strict, a token is expired at its exp
DecodeExpiresAtDeadline(token, leeway, n) ==
    IF token = << >> THEN InvalidToken
    ELSE IF Len(token) # 3 THEN InvalidToken
    ELSE
    LET header_segment == token[1]
        payload_segment == token[2]
        signature_segment == token[3]
    IN  IF ~IsBase64(header_segment) THEN InvalidToken
        ELSE
        LET header_data == json_loads(_urlsafe_b64decode(header_segment))
        IN  IF \/ Get(header_data, "alg") # JWT_HEADER["alg"]
               \/ Get(header_data, "typ") # JWT_HEADER["typ"]
            THEN InvalidToken
            ELSE IF ~IsBase64(payload_segment) THEN InvalidToken
            ELSE
            LET payload_data == json_loads(_urlsafe_b64decode(payload_segment))
                expected_signature == _sign(<<header_segment, payload_segment>>)
            IN  IF ~IsBase64(signature_segment) THEN InvalidToken
                ELSE IF _urlsafe_b64decode(signature_segment) # expected_signature
                THEN InvalidToken
                ELSE
                LET exp == Get(payload_data, "exp")
                IN  IF exp = None THEN InvalidToken
                    ELSE IF n >= exp + leeway THEN ExpiredToken
                    ELSE TokenResult("ok", payload_data,
                                     IF "iat" \in DOMAIN payload_data
                                     THEN payload_data["iat"] ELSE n,
                                     exp)

decode_session_token(token, leeway, n) ==
    IF token = << >> THEN InvalidToken
    ELSE IF Len(token) # 3 THEN InvalidToken
    ELSE
    LET header_segment == token[1]
        payload_segment == token[2]
        signature_segment == token[3]
    IN  IF ~IsBase64(header_segment) THEN InvalidToken
        ELSE
        LET header_data == json_loads(_urlsafe_b64decode(header_segment))
        IN  IF \/ Get(header_data, "alg") # JWT_HEADER["alg"]
               \/ Get(header_data, "typ") # JWT_HEADER["typ"]
            THEN InvalidToken
            ELSE IF ~IsBase64(payload_segment) THEN InvalidToken
            ELSE
            LET payload_data == json_loads(_urlsafe_b64decode(payload_segment))
                expected_signature == _sign(<<header_segment, payload_segment>>)
            IN  IF ~IsBase64(signature_segment) THEN InvalidToken
                ELSE IF _urlsafe_b64decode(signature_segment) # expected_signature
                THEN InvalidToken
                ELSE
                LET exp == Get(payload_data, "exp")
                IN  IF exp = None THEN InvalidToken
                    ELSE IF n > exp + leeway THEN ExpiredToken
                    ELSE TokenResult("ok", payload_data,
                                     IF "iat" \in DOMAIN payload_data
                                     THEN payload_data["iat"] ELSE n,
                                     exp)

\* the leeways decode_session_token is called with
Leeways == {0, 1}

\* what a client presents for a token it was issued: the token itself, the
\* token with its exp claim pushed back, the token signed with another
\* key, the token without its signature segment, the token with a
\* signature segment that is not base64, and no token
Presented == {"issued", "exp_altered", "other_key", "two_segments", "bad_base64", "empty"}

Present(token, how) ==
    LET later == Put(json_loads(_urlsafe_b64decode(token[2])), "exp", 9)
        payload_segment == _urlsafe_b64encode(_json_dumps(later))
    IN  CASE how = "issued" -> token
          [] how = "exp_altered" -> <<token[1], payload_segment, token[3]>>
          [] how = "other_key" ->
                <<token[1], token[2],
                  _urlsafe_b64encode(HmacSha256("another key", <<token[1], token[2]>>))>>
          [] how = "two_segments" -> <<token[1], token[2]>>
          [] how = "bad_base64" -> <<token[1], token[2], <<"!">> >>
          [] how = "empty" -> << >>

NoIssue == [claims |-> EmptyDict, ttl |-> None, at |-> None]

NoDecode == [how |-> "none", leeway |-> None, at |-> None, result |-> InvalidToken]

\* ------------------------------------------------------------- the model
LastOp(op, token, outcome, evicted) ==
    [op |-> op, token |-> token, outcome |-> outcome, evicted |-> evicted]

NoOp == LastOp("none", None, "none", None)

Init ==
    /\ now = 0
    /\ registry = << >>
    /\ revoked = EmptyDict
    /\ portal = EmptyDict
    /\ last = NoOp
    /\ PORTAL_AUTH_ENABLED = TRUE
    /\ lock = None
    /\ request = [r \in Requests |-> IdleRequest]
    /\ clock = 0
    /\ session_token = << >>
    /\ issued = NoIssue
    /\ decoded = NoDecode

\* the clock advances between operations
Tick ==
    /\ now < MaxTime
    /\ now' = now + 1
    /\ last' = NoOp
    /\ UNCHANGED <<registry, revoked, portal, authvars, codecvars>>

Register(user_id, token, expires_at) ==
    LET r == register_session(registry, revoked, user_id, token, expires_at, now)
    IN  /\ registry' = r.reg
        /\ revoked' = r.rev
        /\ last' = LastOp("register", token, r.outcome, r.evicted)
        /\ UNCHANGED <<now, portal, authvars, codecvars>>

ValidateAndTouch(token, user_id, expires_at) ==
    LET r == validate_and_touch_session(registry, revoked, token, user_id, expires_at, now)
    IN  /\ registry' = r.reg
        /\ revoked' = r.rev
        /\ last' = LastOp("validate", token, r.outcome, r.evicted)
        /\ UNCHANGED <<now, portal, authvars, codecvars>>

RevokeAll(user_id) ==
    LET r == revoke_user_sessions(registry, revoked, portal, user_id, now)
    IN  /\ registry' = r.reg
        /\ revoked' = r.rev
        /\ portal' = r.pc
        /\ last' = LastOp("revoke_all", None, "ok", None)
        /\ UNCHANGED <<now, authvars, codecvars>>

Revoke(token) ==
    LET r == revoke_session_by_token(registry, revoked, portal, token, now)
    IN  /\ registry' = r.reg
        /\ revoked' = r.rev
        /\ portal' = r.pc
        /\ last' = LastOp("revoke", token, "ok", None)
        /\ UNCHANGED <<now, authvars, codecvars>>

Next ==
    \/ Tick
    \/ \E u \in Users, t \in Tokens, e \in Expiries : Register(u, t, e)
    \/ \E t \in Tokens, u \in Users, h \in Expiries \cup {None} : ValidateAndTouch(t, u, h)
    \/ \E u \in Users : RevokeAll(u)
    \/ \E t \in Tokens : Revoke(t)

Spec == Init /\ [][Next]_vars

\* ------------------------------------------- the authenticator's requests
\* get_current_user, one action per stretch of code between two points
\* where the clock is read again or the coroutine waits (the portal call,
\* the user table).  The portal's answer and the user table's content are
\* the environment's choice.
SetRequest(r, rec) == request' = [request EXCEPT ![r] = rec]

\* the request ends: its locals are gone, what it did stays on record
Ended(rec, result) ==
    [rec EXCEPT !.pc = "done", !.result = result, !.expires_at = None,
                !.cached = "none",
                !.user_id = IF result = "authenticated" THEN rec.user_id ELSE None]

\* authenticate_with_portal_token goes on to _fetch_portal_session: the
\* cached resolution is dropped from its locals
ToPortal(rec) ==
    [rec EXCEPT !.pc = "fetch_portal", !.user_id = None, !.expires_at = None,
                !.validation = "none", !.live = FALSE]

\* mutant: a token without sub claim is handed to the bridge
BeginSublessToBridge(r, token) ==
    /\ request[r].pc = "idle"
    /\ LET d   == PyJWT_decode(token, now)
           sub == IF d = "ok" THEN JwtSub(token) ELSE None
       IN  SetRequest(r, [IdleRequest EXCEPT
               !.token = token,
               !.decoded = d,
               !.user_id = sub,
               !.expires_at = IF d = "ok" THEN JwtExp(token) ELSE None,
               !.pc = IF d = "invalid" \/ (d = "ok" /\ sub = None) THEN "bridge"
                      ELSE IF d = "expired" THEN "revoke"
                      ELSE "validate"])
    /\ UNCHANGED <<now, registry, revoked, portal, last, PORTAL_AUTH_ENABLED, lock, codecvars>>

\* lines 1976-1999: decode the bearer token
Begin(r, token) ==
    /\ request[r].pc = "idle"
    /\ LET d   == PyJWT_decode(token, now)
           sub == IF d = "ok" THEN JwtSub(token) ELSE None
       IN  SetRequest(r, [IdleRequest EXCEPT
               !.token = token,
               !.decoded = d,
               !.user_id = sub,
               !.expires_at = IF d = "ok" THEN JwtExp(token) ELSE None,
               !.pc = IF d = "invalid" THEN "bridge"
                      ELSE IF d = "expired" \/ sub = None THEN "revoke"
                      ELSE "validate"])
    /\ UNCHANGED <<now, registry, revoked, portal, last, PORTAL_AUTH_ENABLED, lock, codecvars>>

\* line 2001: validate_and_touch_session(raw_token, user_id, expires_at)
ValidateLocal(r) ==
    /\ request[r].pc = "validate"
    /\ lock \in {None, r}
    /\ LET q == request[r]
           v == validate_and_touch_session(registry, revoked, q.token,
                                           q.user_id, q.expires_at, now)
           seen == [q EXCEPT
                      !.validation = IF v.outcome = "ok" THEN "ok" ELSE "rejected",
                      !.live = SessionGood(registry, v.reg, v.rev, q.token, q.user_id, now)]
       IN  /\ registry' = v.reg
           /\ revoked' = v.rev
           /\ SetRequest(r, IF v.outcome = "ok"
                            THEN [seen EXCEPT !.pc = "fetch_user"]
                            ELSE Ended(seen, "unauthenticated"))
    /\ lock' = _session_lock_release(r)
    /\ UNCHANGED <<now, portal, last, PORTAL_AUTH_ENABLED, codecvars>>

\* lines 2003-2008: fetch_user_by_id answers
FetchUser(r, found) ==
    /\ request[r].pc = "fetch_user"
    /\ SetRequest(r, IF found
                     THEN Ended(request[r], "authenticated")
                     ELSE [request[r] EXCEPT !.pc = "revoke"])
    /\ UNCHANGED <<now, registry, revoked, portal, last, PORTAL_AUTH_ENABLED, lock, codecvars>>

\* lines 1980-1981, 1986-1987, 1991-1992, 2005-2006:
\* revoke_session_by_token(raw_token), then 401
RevokeRaw(r) ==
    /\ request[r].pc = "revoke"
    /\ lock \in {None, r}
    /\ LET k == revoke_session_by_token(registry, revoked, portal,
                                        request[r].token, now)
       IN  /\ registry' = k.reg
           /\ revoked' = k.rev
           /\ portal' = k.pc
    /\ SetRequest(r, Ended([request[r] EXCEPT !.revoke = TRUE], "unauthenticated"))
    /\ lock' = _session_lock_release(r)
    /\ UNCHANGED <<now, last, PORTAL_AUTH_ENABLED, codecvars>>

\* lines 1983, 1462-1466: authenticate_with_portal_token up to the cache
Bridge(r) ==
    /\ request[r].pc = "bridge"
    /\ LET c == _cached_portal_user(portal, request[r].token, now)
           q == [request[r] EXCEPT
                    !.bridge = TRUE,
                    !.cached = IF ~PORTAL_AUTH_ENABLED THEN "none"
                               ELSE IF c.hit THEN "hit"
                               ELSE IF c.pc = portal THEN "miss"
                               ELSE "purged"]
       IN  IF ~PORTAL_AUTH_ENABLED
           THEN /\ SetRequest(r, [q EXCEPT !.pc = "revoke"])
                /\ UNCHANGED <<portal, lock>>
           ELSE /\ lock \in {None, r}
                /\ portal' = c.pc
                /\ SetRequest(r, IF c.hit
                                 THEN [q EXCEPT !.pc = "validate_cached",
                                                !.user_id = c.user_id,
                                                !.expires_at = c.expires_at]
                                 ELSE ToPortal(q))
                /\ lock' = _session_lock_release(r)
    /\ UNCHANGED <<now, registry, revoked, last, PORTAL_AUTH_ENABLED, codecvars>>

\* lines 1467-1475: validate the cached resolution, drop it when rejected
ValidateCached(r) ==
    /\ request[r].pc = "validate_cached"
    /\ lock \in {None, r}
    /\ LET q == request[r]
           v == validate_and_touch_session(registry, revoked, q.token,
                                           q.user_id, q.expires_at, now)
           seen == [q EXCEPT
                      !.validation = IF v.outcome = "ok" THEN "ok" ELSE "rejected",
                      !.live = SessionGood(registry, v.reg, v.rev, q.token, q.user_id, now)]
       IN  /\ registry' = v.reg
           /\ revoked' = v.rev
           /\ portal' = IF v.outcome = "ok" THEN portal ELSE Pop(portal, q.token)
           /\ SetRequest(r, IF v.outcome = "ok"
                            THEN [seen EXCEPT !.pc = "fetch_cached_user"]
                            ELSE ToPortal(seen))
    /\ lock' = _session_lock_release(r)
    /\ UNCHANGED <<now, last, PORTAL_AUTH_ENABLED, codecvars>>

\* lines 1476-1478: fetch_user_by_id(session, cached_user_id) answers
FetchCachedUser(r, found) ==
    /\ request[r].pc = "fetch_cached_user"
    /\ SetRequest(r, IF found
                     THEN Ended(request[r], "authenticated")
                     ELSE ToPortal(request[r]))
    /\ UNCHANGED <<now, registry, revoked, portal, last, PORTAL_AUTH_ENABLED, lock, codecvars>>

\* lines 1480-1482: the portal answers, or the call fails or times out
FetchPortal(r, response) ==
    /\ request[r].pc = "fetch_portal"
    /\ SetRequest(r, IF response.ok
                     THEN [request[r] EXCEPT !.pc = "ensure_user",
                                             !.cached = "none",
                                             !.external = "ok",
                                             !.user_id = response.user_id,
                                             !.expires_at = response.expires_at]
                     ELSE [request[r] EXCEPT !.pc = "revoke",
                                             !.cached = "none",
                                             !.external = "failed"])
    /\ UNCHANGED <<now, registry, revoked, portal, last, PORTAL_AUTH_ENABLED, lock, codecvars>>

\* line 1484: _ensure_portal_user finds the local user of the portal's
\* user, or creates it
EnsureUser(r) ==
    /\ request[r].pc = "ensure_user"
    /\ SetRequest(r, [request[r] EXCEPT !.pc = "validate_portal"])
    /\ UNCHANGED <<now, registry, revoked, portal, last, PORTAL_AUTH_ENABLED, lock, codecvars>>

\* mutant: _remember_portal_session runs before the validation, the entry
\* is written whatever the validation says
CacheBeforeValidation(r) ==
    /\ request[r].pc = "validate_portal"
    /\ lock \in {None, r}
    /\ LET q == request[r]
           v == validate_and_touch_session(registry, revoked, q.token,
                                           q.user_id, q.expires_at, now)
           seen == [q EXCEPT
                      !.validation = IF v.outcome = "ok" THEN "ok" ELSE "rejected",
                      !.live = SessionGood(registry, v.reg, v.rev, q.token, q.user_id, now)]
       IN  /\ registry' = v.reg
           /\ revoked' = v.rev
           /\ portal' = _remember_portal_session(portal, q.token,
                                                 q.user_id, q.expires_at)
           /\ SetRequest(r, Ended(seen, IF v.outcome = "ok"
                                        THEN "authenticated"
                                        ELSE "unauthenticated"))
    /\ lock' = _session_lock_release(r)
    /\ UNCHANGED <<now, last, PORTAL_AUTH_ENABLED, codecvars>>

\* lines 1486-1491: validate_and_touch_session, whose HTTPException leaves
\* get_current_user too, then _remember_portal_session
ValidatePortal(r) ==
    /\ request[r].pc = "validate_portal"
    /\ lock \in {None, r}
    /\ LET q == request[r]
           v == validate_and_touch_session(registry, revoked, q.token,
                                           q.user_id, q.expires_at, now)
           seen == [q EXCEPT
                      !.validation = IF v.outcome = "ok" THEN "ok" ELSE "rejected",
                      !.live = SessionGood(registry, v.reg, v.rev, q.token, q.user_id, now)]
       IN  /\ registry' = v.reg
           /\ revoked' = v.rev
           /\ portal' = IF v.outcome = "ok"
                        THEN _remember_portal_session(portal, q.token,
                                                      q.user_id, q.expires_at)
                        ELSE portal
           /\ SetRequest(r, Ended(seen, IF v.outcome = "ok"
                                        THEN "authenticated"
                                        ELSE "unauthenticated"))
    /\ lock' = _session_lock_release(r)
    /\ UNCHANGED <<now, last, PORTAL_AUTH_ENABLED, codecvars>>

\* the response is sent; the worker takes the next request
Finish(r) ==
    /\ request[r].pc = "done"
    /\ SetRequest(r, IdleRequest)
    /\ UNCHANGED <<now, registry, revoked, portal, last, PORTAL_AUTH_ENABLED, lock, codecvars>>

\* login, lines 2304-2307: register_session(user.id, access_token, expires_at)
Login(token) ==
    /\ token \in Minted(now)
    /\ lock = None
    /\ LET g == register_session(registry, revoked, JwtSub(token), token,
                                 now + ACCESS_TOKEN_EXPIRE_MINUTES, now)
       IN  /\ registry' = g.reg
           /\ revoked' = g.rev
    /\ lock' = _session_lock_release(None)
    /\ UNCHANGED <<now, portal, last, PORTAL_AUTH_ENABLED, request, codecvars>>

\* delete_user, line 2380: revoke_user_sessions(user_id)
DeleteUser(user_id) ==
    /\ lock = None
    /\ LET k == revoke_user_sessions(registry, revoked, portal, user_id, now)
       IN  /\ registry' = k.reg
           /\ revoked' = k.rev
           /\ portal' = k.pc
    /\ lock' = _session_lock_release(None)
    /\ UNCHANGED <<now, last, PORTAL_AUTH_ENABLED, request, codecvars>>

AuthInit ==
    /\ now = 0
    /\ registry = << >>
    /\ revoked = EmptyDict
    /\ portal = EmptyDict
    /\ last = NoOp
    /\ PORTAL_AUTH_ENABLED \in BOOLEAN
    /\ lock = None
    /\ request = [r \in Requests |-> IdleRequest]
    /\ clock = 0
    /\ session_token = << >>
    /\ issued = NoIssue
    /\ decoded = NoDecode

AuthNext ==
    \/ Tick
    \/ \E r \in Requests, t \in BearerTokens : Begin(r, t)
    \/ \E r \in Requests : ValidateLocal(r)
    \/ \E r \in Requests, found \in BOOLEAN : FetchUser(r, found)
    \/ \E r \in Requests : RevokeRaw(r)
    \/ \E r \in Requests : Bridge(r)
    \/ \E r \in Requests : ValidateCached(r)
    \/ \E r \in Requests, found \in BOOLEAN : FetchCachedUser(r, found)
    \/ \E r \in Requests, response \in PortalResponses : FetchPortal(r, response)
    \/ \E r \in Requests : EnsureUser(r)
    \/ \E r \in Requests : ValidatePortal(r)
    \/ \E r \in Requests : Finish(r)
    \/ \E t \in BearerTokens : Login(t)
    \/ \E u \in Users : DeleteUser(u)

AuthSpec == AuthInit /\ [][AuthNext]_vars

\* a request that has begun takes its next step: the event loop runs every
\* ready coroutine, the portal call returns or times out
\* (PORTAL_SESSION_TIMEOUT_SECONDS), the user table answers
Advance(r) ==
    \/ ValidateLocal(r)
    \/ \E found \in BOOLEAN : FetchUser(r, found)
    \/ RevokeRaw(r)
    \/ Bridge(r)
    \/ ValidateCached(r)
    \/ \E found \in BOOLEAN : FetchCachedUser(r, found)
    \/ \E response \in PortalResponses : FetchPortal(r, response)
    \/ EnsureUser(r)
    \/ ValidatePortal(r)

\* the positions at which the next statement of a request is an
\* "async with _session_lock", and those at which it waits for the portal
\* or for the user table
LockedPcs == {"validate", "revoke", "bridge", "validate_cached", "validate_portal"}

SuspendedPcs == {"fetch_user", "fetch_cached_user", "fetch_portal", "ensure_user"}

\* the steps of a request that run under _session_lock
Operation(r) ==
    \/ ValidateLocal(r)
    \/ RevokeRaw(r)
    \/ Bridge(r)
    \/ ValidateCached(r)
    \/ ValidatePortal(r)

\* "async with _session_lock" entered, its body not yet run
Acquire(r) ==
    /\ request[r].pc \in LockedPcs
    /\ request[r].pc = "bridge" => PORTAL_AUTH_ENABLED
    /\ lock = None
    /\ lock' = r
    /\ UNCHANGED <<now, registry, revoked, portal, last, PORTAL_AUTH_ENABLED, request, codecvars>>

\* the two requests, each run once from its arrival to its response
OnceNext ==
    \/ Tick
    \/ \E r \in Requests, t \in BearerTokens : Begin(r, t)
    \/ \E r \in Requests : Advance(r)
    \/ \E t \in BearerTokens : Login(t)
    \/ \E u \in Users : DeleteUser(u)

AuthFairSpec ==
    AuthInit /\ [][OnceNext]_vars /\ \A r \in Requests : WF_vars(Advance(r))

\* the same two requests, the entry into each critical section being a
\* step of its own
LockNext == OnceNext \/ \E r \in Requests : Acquire(r)

LockSpec == AuthInit /\ [][LockNext]_vars

\* requests that present locally signed tokens only: the bridge is never
\* entered
LocalNext ==
    \/ Tick
    \/ \E r \in Requests, t \in LocalTokens : Begin(r, t)
    \/ \E r \in Requests : ValidateLocal(r)
    \/ \E r \in Requests, found \in BOOLEAN : FetchUser(r, found)
    \/ \E r \in Requests : RevokeRaw(r)
    \/ \E r \in Requests : Finish(r)
    \/ \E t \in LocalTokens : Login(t)
    \/ \E u \in Users : DeleteUser(u)

LocalSpec == AuthInit /\ [][LocalNext]_vars

\* ---------------------------------------------- the codec's specification
\* the portal's clock advances
CodecTick ==
    /\ clock < MaxTime
    /\ clock' = clock + 1
    /\ UNCHANGED <<now, registry, revoked, portal, last, authvars,
                   session_token, issued, decoded>>

\* views.py hands out issue_session_token(payload, expires_in)
Issue(payload, expires_in) ==
    /\ session_token' = issue_session_token(payload, expires_in, clock)
    /\ issued' = [claims |-> payload,
                  ttl |-> IF expires_in # None THEN expires_in ELSE DEFAULT_TOKEN_TTL,
                  at |-> clock]
    /\ decoded' = NoDecode
    /\ UNCHANGED <<now, registry, revoked, portal, last, authvars, clock>>

\* the client presents the token: decode_session_token(token, leeway=leeway)
Decode(how, leeway) ==
    /\ session_token # << >>
    /\ decoded' = [how |-> how, leeway |-> leeway, at |-> clock,
                   result |-> decode_session_token(Present(session_token, how),
                                                   leeway, clock)]
    /\ UNCHANGED <<now, registry, revoked, portal, last, authvars,
                   clock, session_token, issued>>

CodecNext ==
    \/ CodecTick
    \/ \E payload \in ClaimSets, expires_in \in {None, 0, 1} : Issue(payload, expires_in)
    \/ \E how \in Presented, leeway \in Leeways : Decode(how, leeway)

CodecSpec == Init /\ [][CodecNext]_vars

TypeOK ==
    /\ now \in Times
    /\ \A i \in DOMAIN registry : registry[i].token \in Tokens
    /\ DOMAIN revoked \subseteq Tokens
    /\ DOMAIN portal \subseteq Tokens

\* ================================================================ claims
Hints == Expiries \cup {None}

\* what validate_and_touch(token, user_id, hint) would do if called now
ValidateNow(token, user_id, hint) ==
    validate_and_touch_session(registry, revoked, token, user_id, hint, now)

Live(info, n) ==
    n < info.expires_at /\ n < info.last_seen + SESSION_IDLE_TIMEOUT_MINUTES

RegistryOps == {"register", "validate", "revoke", "revoke_all"}

\* C1: in every reachable state, for a token the revocation cache holds with
\* a horizon strictly later than now, validate_and_touch fails with
\* SessionInactive for every subject and every hint, and leaves no session
\* for the token.
C1_RevokedTokenRejected ==
    \A t \in DOMAIN revoked :
        revoked[t] > now =>
            \A u \in Users, h \in Hints :
                LET r == ValidateNow(t, u, h)
                IN  r.outcome = "inactive" /\ ~RegHas(r.reg, t)

\* a validation has just been rejected for a token whose revocation is live
C1_Witness ==
    /\ last.op = "validate"
    /\ last.outcome = "inactive"
    /\ last.token \in DOMAIN revoked
    /\ revoked[last.token] > now

\* C2: no token is both a key of the session registry and a key of the
\* revocation cache.
C2_SessionOrRevokedNotBoth ==
    RegTokens(registry) \cap DOMAIN revoked = {}

\* a revoke has moved a token into the revocation cache while other tokens
\* hold sessions
C2_Witness ==
    /\ last.op = "revoke"
    /\ last.token \in DOMAIN revoked
    /\ registry # << >>

\* C3: the registry never holds more than MAX_CONCURRENT_SESSIONS entries.
C3_RegistryWithinCapacity ==
    Len(registry) <= MAX_CONCURRENT_SESSIONS

\* a lazily creating validate_and_touch has hit the cap and evicted
C3_Witness ==
    /\ last.op = "validate"
    /\ last.evicted # None
    /\ Len(registry) = MAX_CONCURRENT_SESSIONS

\* the result r of an insertion of token into the pruned registry p evicted
\* one session, the least recently seen, and nothing else
C4_Evicted(p, r, token) ==
    \E v \in RegTokens(p) :
        /\ v # token
        /\ r.evicted = v
        /\ RegTokens(r.reg) \cap RegTokens(p) = RegTokens(p) \ {v}
        /\ \A w \in RegTokens(p) : RegGet(p, v).last_seen <= RegGet(p, w).last_seen
        /\ RegGet(p, v).last_seen <= now
        /\ v \in DOMAIN r.rev
        /\ r.rev[v] = RegGet(p, v).expires_at
        /\ \A u \in Users, h \in Hints :
              validate_and_touch_session(r.reg, r.rev, v, u, h, now).outcome # "ok"
        /\ \A w \in RegTokens(p) \ {v} :
              /\ RegGet(r.reg, w) = RegGet(p, w)
              /\ validate_and_touch_session(r.reg, r.rev, w, RegGet(p, w).user_id,
                                            None, now).outcome = "ok"

\* C4: in every reachable state, an insertion of a new token into a full
\* registry (by register, or by the lazy creation of validate_and_touch)
\* evicts exactly one session; the victim is not the inserted token, its
\* last-seen is minimal among all entries, its expiry is recorded in the
\* revocation cache and its next validation fails; every other session is
\* kept unchanged and still validates; no eviction happens otherwise.
C4_EvictsLeastRecentlySeen ==
    \A t \in Tokens :
        LET p  == _prune_sessions_locked(registry, revoked, now)
            rv == _prune_revoked_locked(p.rev, now)
            overflows == ~RegHas(p.reg, t) /\ Len(p.reg) = MAX_CONCURRENT_SESSIONS
        IN  /\ \A u \in Users, e \in Expiries :
                LET r == register_session(registry, revoked, u, t, e, now)
                IN  /\ overflows =>
                        /\ C4_Evicted(p.reg, r, t)
                        /\ RegHas(r.reg, t)
                        /\ Len(r.reg) = MAX_CONCURRENT_SESSIONS
                    /\ ~overflows =>
                        /\ r.evicted = None
                        /\ RegTokens(r.reg) = RegTokens(p.reg) \cup {t}
            /\ \A u \in Users, h \in Hints :
                LET r == validate_and_touch_session(registry, revoked, t, u, h, now)
                    inserts == h # None /\ t \notin DOMAIN rv /\ ~RegHas(p.reg, t)
                IN  /\ (overflows /\ inserts) => C4_Evicted(p.reg, r, t)
                    /\ ~(overflows /\ inserts) => r.evicted = None

\* the scenario of the spec: two sessions remain after a register that
\* evicted a third token, which is now revoked
C4_Witness ==
    /\ last.op = "register"
    /\ last.evicted # None
    /\ last.evicted \in DOMAIN revoked
    /\ RegHas(registry, last.token)
    /\ Len(registry) = MAX_CONCURRENT_SESSIONS
    /\ \A i \in DOMAIN registry : ValidateNow(registry[i].token,
                                              registry[i].user_id, None).outcome = "ok"

\* the session info is still there, with its owner and expiry
C5_Kept(reg, info) ==
    /\ RegHas(reg, info.token)
    /\ RegGet(reg, info.token).user_id = info.user_id
    /\ RegGet(reg, info.token).expires_at = info.expires_at
    /\ RegGet(reg, info.token).last_seen >= info.last_seen

\* C5: in every reachable state, for a session (s, e, last-seen) in the
\* registry, validate_and_touch with subject s succeeds, whatever the hint,
\* when now < e and now < last-seen + idle-timeout, and
\* validate_and_touch(t, s) fails when now >= e or
\* now >= last-seen + idle-timeout; a token that has no session any more
\* (its session was pruned) fails too; and no operation other than an
\* eviction, a revoke of the token or of its owner, or a re-register of the
\* token removes or changes a session that has not expired.
C5_ValidWhileUnexpired ==
    /\ \A i \in DOMAIN registry :
        LET info == registry[i]
        IN  /\ Live(info, now) =>
                \A h \in Hints :
                    /\ ValidateNow(info.token, info.user_id, h).outcome = "ok"
                    /\ RegGet(ValidateNow(info.token, info.user_id, h).reg,
                              info.token) = [info EXCEPT !.last_seen = now]
            /\ ~Live(info, now) =>
                ValidateNow(info.token, info.user_id, None).outcome # "ok"
    /\ \A t \in Tokens \ RegTokens(registry), u \in Users :
        ValidateNow(t, u, None).outcome # "ok"
    /\ \A i \in DOMAIN registry :
        LET info == registry[i]
        IN  Live(info, now) =>
              /\ \A u \in Users, t \in Tokens \ {info.token}, e \in Expiries :
                    LET r == register_session(registry, revoked, u, t, e, now)
                    IN  r.evicted = info.token \/ C5_Kept(r.reg, info)
              /\ \A u \in Users, t \in Tokens, h \in Hints :
                    LET r == ValidateNow(t, u, h)
                    IN  r.evicted = info.token \/ C5_Kept(r.reg, info)
              /\ \A t \in Tokens \ {info.token} :
                    C5_Kept(revoke_session_by_token(registry, revoked, portal, t, now).reg,
                            info)
              /\ \A u \in Users \ {info.user_id} :
                    C5_Kept(revoke_user_sessions(registry, revoked, portal, u, now).reg,
                            info)

\* a touch has just succeeded at a time the session would not have reached
\* without an earlier touch
C5_Witness ==
    /\ last.op = "validate"
    /\ last.outcome = "ok"
    /\ now >= SESSION_IDLE_TIMEOUT_MINUTES
    /\ RegHas(registry, last.token)
    /\ RegGet(registry, last.token).last_seen = now

\* C6: every stored session has last-seen <= absolute expiry.
C6_LastSeenWithinExpiry ==
    \A i \in DOMAIN registry : registry[i].last_seen <= registry[i].expires_at

\* C7: after revoke(t) on a session with expiry e > now, every
\* validate_and_touch(t, subject, hint) at every time in [now, e) fails,
\* unless register(t) is called in between (here: right after the revoke, or
\* after one further revoke or revoke_all).
C7_RevokedUntilExpiry ==
    \A i \in DOMAIN registry :
        LET t  == registry[i].token
            e  == registry[i].expires_at
            r1 == revoke_session_by_token(registry, revoked, portal, t, now)
            after == {r1}
                     \cup {revoke_session_by_token(r1.reg, r1.rev, r1.pc, t2, now) :
                              t2 \in Tokens}
                     \cup {revoke_user_sessions(r1.reg, r1.rev, r1.pc, u, now) :
                              u \in Users}
        IN  e > now =>
              \A s \in after, n \in now..(e - 1), u \in Users, h \in Hints :
                  n \in Times =>
                      validate_and_touch_session(s.reg, s.rev, t, u, h, n).outcome # "ok"

\* C8: remember inserts nothing when horizon <= now, prune removes exactly
\* the entries with horizon <= now, and right after register,
\* validate_and_touch, revoke and revoke_all every entry of the revocation
\* cache has a horizon strictly greater than now.
C8_RevocationsBounded ==
    /\ last.op \in RegistryOps => \A t \in DOMAIN revoked : revoked[t] > now
    /\ \A n \in Times :
          _prune_revoked_locked(revoked, n)
              = Restrict(revoked, {t \in DOMAIN revoked : revoked[t] > n})
    /\ \A t \in Tokens, e \in Times \cup Expiries :
          /\ e <= now => _remember_revoked_locked(revoked, t, e, now) = revoked
          /\ e > now => _remember_revoked_locked(revoked, t, e, now) = Put(revoked, t, e)

\* an operation has just run and left an entry that the next tick makes stale
C8_Witness ==
    /\ last.op \in RegistryOps
    /\ \E t \in DOMAIN revoked : revoked[t] = now + 1
    /\ \E t \in DOMAIN revoked : revoked[t] > now + 1

\* C9: a token bound to subject s is never validated for, nor rebound to, a
\* different subject, whatever the hint and whatever the state of its
\* session (here: the sessions still in the registry, expired or not, that
\* were created with an expiry ahead of the clock).
C9_MismatchedSubjectFails ==
    \A i \in DOMAIN registry :
      registry[i].last_seen < registry[i].expires_at =>
        \A u \in Users \ {registry[i].user_id}, h \in Hints :
            LET t == registry[i].token
                r == ValidateNow(t, u, h)
            IN  /\ r.outcome # "ok"
                /\ ~(RegHas(r.reg, t) /\ RegGet(r.reg, t).user_id = u)

\* C10: validate_and_touch on a token whose registry entry (created with an
\* expiry ahead of the clock) has crossed its absolute expiry or its idle
\* deadline fails with SessionExpired and the entry is removed.
C10_ExpiredEntryReportsExpired ==
    \A i \in DOMAIN registry :
        (registry[i].last_seen < registry[i].expires_at /\ ~Live(registry[i], now)) =>
            LET r == ValidateNow(registry[i].token, registry[i].user_id, None)
            IN  r.outcome = "expired" /\ ~RegHas(r.reg, registry[i].token)

\* the states one further revoke or revoke_all leads to from (reg, rev, pc)
AfterRevokes(reg, rev, pc) ==
    {[reg |-> reg, rev |-> rev, pc |-> pc]}
    \cup {revoke_session_by_token(reg, rev, pc, t2, now) : t2 \in Tokens}
    \cup {revoke_user_sessions(reg, rev, pc, u, now) : u \in Users}

\* token v stays rejected in state s at every time of the clock in [now, e)
RejectedUntil(s, v, e) ==
    \A n \in now..(e - 1), u \in Users, h \in Hints :
        n \in Times =>
            validate_and_touch_session(s.reg, s.rev, v, u, h, n).outcome # "ok"

\* C11: a session removed before its expiry e by the pruning of an
\* operation, or by the capacity eviction of a register, leaves a
\* revocation entry with horizon e, and from then on (here: right after the
\* removal, or after one further revoke or revoke_all, none of them being a
\* register of the token) no validate_and_touch of the token succeeds at
\* any time before e, whatever the subject and the hint.
C11_RemovedStaysRejected ==
    /\ \A i \in DOMAIN registry :
        LET v == registry[i].token
            e == registry[i].expires_at
            r == ValidateNow(v, registry[i].user_id, None)
        IN  (now < e /\ now >= _idle_deadline(registry[i])) =>
              /\ ~RegHas(r.reg, v)
              /\ v \in DOMAIN r.rev /\ r.rev[v] = e
              /\ \A s \in AfterRevokes(r.reg, r.rev, portal) : RejectedUntil(s, v, e)
    /\ \A t \in Tokens, u \in Users, e2 \in Expiries :
        LET r == register_session(registry, revoked, u, t, e2, now)
            v == r.evicted
        IN  (v # None /\ now < RegGet(registry, v).expires_at) =>
              LET e == RegGet(registry, v).expires_at
              IN  /\ ~RegHas(r.reg, v)
                  /\ v \in DOMAIN r.rev /\ r.rev[v] = e
                  /\ \A s \in AfterRevokes(r.reg, r.rev, portal) : RejectedUntil(s, v, e)

\* what every request shows of the first two sentences of C12: the bridge is
\* entered exactly by the requests whose token failed to decode for its
\* signature or format, a token of the local signer never reaches it, and
\* a request whose token decoded as expired only revokes and ends
\* Unauthenticated, with no bridge attempt and no portal call
C12_Paths(q) ==
    /\ q.bridge => (q.decoded = "invalid" /\ JwtExp(q.token) = None)
    /\ (q.decoded = "invalid" /\ q.pc # "bridge") => q.bridge
    /\ q.decoded # "invalid" => (q.external = "none" /\ q.pc # "bridge")
    /\ q.decoded = "expired" =>
          /\ JwtExp(q.token) < now
          /\ q.pc \in {"revoke", "done"}
          /\ q.validation = "none"
          /\ q.pc = "done" => (q.revoke /\ q.result = "unauthenticated")
    /\ q.pc \in {"validate", "fetch_user"} =>
          (q.decoded = "ok" /\ q.user_id = JwtSub(q.token)
                            /\ q.expires_at = JwtExp(q.token))

\* C12 as stated: the bridge is attempted iff local decoding fails for a
\* signature/format reason; an expired token is revoked and the request
\* ends Unauthenticated without bridge attempt or external call; and when
\* local decoding succeeds the outcome is the one of the registry
\* validation of the decoded subject and expiry (authenticated iff the
\* validation succeeded).
C12_DecodeDecidesOutcome ==
    \A r \in Requests :
        LET q == request[r]
        IN  /\ C12_Paths(q)
            /\ (q.decoded = "ok" /\ q.pc = "done") =>
                  (q.result = "authenticated" <=> q.validation = "ok")

\* C12 amended: as above, but when local decoding succeeds the registry
\* validation decides only one way: a rejected validation ends the request
\* Unauthenticated, and a successful one ends it authenticated as the
\* decoded subject unless the user table has no such user, in which case
\* the token is revoked and the request ends Unauthenticated.
C12_DecodeDecidesPath ==
    \A r \in Requests :
        LET q == request[r]
        IN  /\ C12_Paths(q)
            /\ (q.decoded = "ok" /\ q.pc = "done") =>
                  /\ q.validation \in {"ok", "rejected"}
                  /\ q.validation = "rejected" =>
                        (q.result = "unauthenticated" /\ ~q.revoke)
                  /\ q.result = "authenticated" =>
                        (q.validation = "ok" /\ ~q.revoke
                            /\ q.user_id = JwtSub(q.token))
                  /\ (q.validation = "ok" /\ q.result = "unauthenticated") => q.revoke

\* one request has ended on an expired token, the other validated its
\* decoded subject and was then turned away because the user is gone
C12_Witness ==
    \E r1, r2 \in Requests :
        /\ request[r1].pc = "done" /\ request[r1].decoded = "expired"
        /\ request[r1].revoke
        /\ request[r2].pc = "done" /\ request[r2].decoded = "ok"
        /\ request[r2].validation = "ok" /\ request[r2].result = "unauthenticated"

\* request r takes the step that ends it
Ends(r) == request[r].pc # "done" /\ request'[r].pc = "done"

\* C13: whenever a request that went to the bridge (its token failed to
\* decode for signature/format) ends Unauthenticated - bridge disabled,
\* portal call failed, or the registry rejected the token - it has called
\* revoke on the raw token, and at the end the token has no session and no
\* portal cache entry.
C13_FailedBridgeRevokes ==
    [][\A r \in Requests :
          (Ends(r) /\ request'[r].decoded = "invalid"
                   /\ request'[r].result = "unauthenticated") =>
              /\ request'[r].revoke
              /\ ~RegHas(registry', request'[r].token)
              /\ request'[r].token \notin DOMAIN portal']_vars

C15_CachedLookup ==
    /\ [](\A t \in BearerTokens :
            LET c == _cached_portal_user(portal, t, now)
                held == t \in DOMAIN portal
            IN  /\ c.hit <=> (held /\ now < portal[t].expires_at)
                /\ c.hit => /\ c.user_id = portal[t].user_id
                            /\ c.expires_at = portal[t].expires_at
                            /\ c.pc = portal
                /\ ~c.hit => (c.user_id = None /\ c.expires_at = None)
                /\ (held /\ now >= portal[t].expires_at) =>
                      /\ DOMAIN c.pc = DOMAIN portal \ {t}
                      /\ \A t2 \in DOMAIN c.pc : c.pc[t2] = portal[t2]
                /\ ~held => c.pc = portal)
    /\ [][\A r \in Requests :
            (request[r].pc = "bridge" /\ request'[r].pc # "bridge"
                                      /\ PORTAL_AUTH_ENABLED) =>
                LET c == _cached_portal_user(portal, request[r].token, now)
                IN  /\ registry' = registry
                    /\ revoked' = revoked
                    /\ portal' = c.pc
                    /\ c.hit => /\ request'[r].pc = "validate_cached"
                                /\ request'[r].user_id = c.user_id
                                /\ request'[r].expires_at = c.expires_at
                    /\ ~c.hit => request'[r].pc = "fetch_portal"]_vars

\* a request has just looked up a token whose cache entry had expired: the
\* entry is gone and the request goes to the portal; the session the entry
\* came with is still in the registry
C15_Witness ==
    \E r \in Requests :
        /\ request[r].pc = "fetch_portal"
        /\ request[r].cached = "purged"
        /\ request[r].token \notin DOMAIN portal
        /\ RegHas(registry, request[r].token)

\* C16: the step at which the portal call of a request fails or times out
\* changes no registry, revocation or cache state; the only step the request
\* takes after it ends the request Unauthenticated and leaves its token
\* without session and without portal cache entry; and while the request
\* does not move, a session or a cache entry that appears for the token is
\* the work of another request presenting the same token.
C16_FailedCallLeavesNothing ==
    [][\A r \in Requests :
          /\ (request[r].pc = "fetch_portal" /\ request'[r].external = "failed") =>
                /\ registry' = registry
                /\ revoked' = revoked
                /\ portal' = portal
                /\ request'[r].pc = "revoke"
          /\ (request[r].external = "failed" /\ request'[r] # request[r]
                                             /\ request[r].pc # "done") =>
                /\ request'[r].pc = "done"
                /\ request'[r].result = "unauthenticated"
                /\ ~RegHas(registry', request[r].token)
                /\ request[r].token \notin DOMAIN portal'
          /\ (request[r].external = "failed" /\ request'[r] = request[r]) =>
                \A t \in {request[r].token} :
                    /\ (RegHas(registry', t) /\ ~RegHas(registry, t)) =>
                          \E r2 \in Requests \ {r} :
                              /\ request[r2].token = t
                              /\ request'[r2] # request[r2]
                    /\ (t \in DOMAIN portal' /\ t \notin DOMAIN portal) =>
                          \E r2 \in Requests \ {r} :
                              /\ request[r2].token = t
                              /\ request'[r2] # request[r2]]_vars

\* the portal call of a request failed; the request has revoked its token
\* and ended, and the token has neither session nor cache entry
C16_Witness ==
    \E r \in Requests :
        /\ request[r].pc = "done"
        /\ request[r].external = "failed"
        /\ request[r].revoke
        /\ ~RegHas(registry, request[r].token)
        /\ request[r].token \notin DOMAIN portal
        /\ request[r].token \in DOMAIN revoked

\* C17: a request holds _session_lock only inside a registry/cache
\* operation, never while it waits for the portal or for the user table;
\* the holder can always run its operation to the release; and whenever
\* the lock is free, every register, validate_and_touch or revoke that is
\* the next step of a request, of login or of delete_user can run, whatever
\* the other request is waiting for.
C17_NoLockAcrossSuspension ==
    /\ lock \in Requests \cup {None}
    /\ \A r \in Requests :
          /\ request[r].pc \in SuspendedPcs \cup {"idle", "done"} => lock # r
          /\ lock = r => (request[r].pc \in LockedPcs /\ ENABLED Operation(r))
    /\ lock = None =>
          /\ \A r \in Requests :
                request[r].pc \in LockedPcs => ENABLED Operation(r)
          /\ \A u \in Users : ENABLED DeleteUser(u)
          /\ \A t \in Minted(now) : ENABLED Login(t)

\* one request waits for the portal while the other one holds the lock for
\* its validation
C17_Witness ==
    \E r1, r2 \in Requests :
        /\ request[r1].pc = "fetch_portal"
        /\ request[r2].pc \in {"validate", "validate_portal"}
        /\ lock = r2

\* request r takes its registry validation step
Validates(r) ==
    /\ request[r].pc \in {"validate", "validate_cached", "validate_portal"}
    /\ request'[r].pc # request[r].pc

C19_RevokeAllOnlyThatSubject ==
    \A u \in Users :
        LET k     == revoke_user_sessions(registry, revoked, portal, u, now)
            owned == {i \in DOMAIN registry : registry[i].user_id = u}
            gone  == {registry[i].token : i \in owned}
        IN  /\ \A i \in DOMAIN k.reg : k.reg[i].user_id # u
            /\ k.reg = SelectSeq(registry, LAMBDA info : info.user_id # u)
            /\ \A i \in DOMAIN registry \ owned :
                  \E j \in DOMAIN k.reg : k.reg[j] = registry[i]
            /\ DOMAIN k.pc = DOMAIN portal \ gone
            /\ \A t \in DOMAIN k.pc : k.pc[t] = portal[t]
            /\ \A i \in owned :
                  LET t == registry[i].token
                      e == registry[i].expires_at
                  IN  /\ e > now => (t \in DOMAIN k.rev /\ k.rev[t] = e)
                      /\ e <= now => t \notin DOMAIN k.rev
            /\ \A t \in DOMAIN k.rev \ gone :
                  t \in DOMAIN revoked /\ k.rev[t] = revoked[t] /\ revoked[t] > now

\* a user owns a session that is ahead of the clock and has a portal cache
\* entry while another user owns a session too, and revoke_all for that user
\* removes the one, drops the cache entry, records the revocation and keeps
\* the other
C19_Witness ==
    \E u \in Users :
        LET k == revoke_user_sessions(registry, revoked, portal, u, now)
        IN  /\ \E i \in DOMAIN registry :
                  /\ registry[i].user_id = u
                  /\ registry[i].expires_at > now
                  /\ registry[i].token \in DOMAIN portal
                  /\ registry[i].token \notin DOMAIN k.pc
                  /\ registry[i].token \in DOMAIN k.rev
            /\ k.reg # << >>
            /\ Len(k.reg) < Len(registry)

\* C20: in every reachable state, register(subject, token, expires_at)
\* called now returns a registry with exactly one entry for the token,
\* that entry has the subject, the expiry and last-seen = now whatever
\* entry the token had before, and the returned revocation cache has no
\* entry for the token, revoked before the call or not.
C20_RegisterStoresFresh ==
    \A u \in Users, t \in Tokens, e \in Expiries :
        LET g == register_session(registry, revoked, u, t, e, now)
        IN  /\ RegHas(g.reg, t)
            /\ \A i \in DOMAIN g.reg :
                  g.reg[i].token = t => g.reg[i] = SessionInfo(u, t, e, now)
            /\ \A i, j \in DOMAIN g.reg : g.reg[i].token = g.reg[j].token => i = j
            /\ t \notin DOMAIN g.rev

\* register has just stored a session over a full registry, evicting
\* another; in the state it left, one token is revoked with its horizon
\* ahead of the clock and registering it stores it and clears the
\* revocation, and one token has a live session seen earlier, of another
\* subject, that registering under a new subject overwrites
C20_Witness ==
    /\ last.op = "register"
    /\ last.evicted # None
    /\ RegHas(registry, last.token)
    /\ RegGet(registry, last.token).last_seen = now
    /\ last.token \notin DOMAIN revoked
    /\ \E t \in DOMAIN revoked, u \in Users, e \in Expiries :
          /\ revoked[t] > now
          /\ t \notin DOMAIN register_session(registry, revoked, u, t, e, now).rev
    /\ \E i \in DOMAIN registry, u \in Users, e \in Expiries :
          /\ registry[i].last_seen < now
          /\ registry[i].user_id # u
          /\ now < registry[i].expires_at
          /\ now < _idle_deadline(registry[i])
          /\ RegGet(register_session(registry, revoked, u, registry[i].token, e, now).reg,
                    registry[i].token) = SessionInfo(u, registry[i].token, e, now)

\* C21: in every reachable state, for a token that has no registry entry
\* and no revocation entry, validate_and_touch called now without a hint
\* fails with "Session is no longer active" and returns a registry without
\* the token; with a hint later than now it succeeds and the registry holds
\* for the token the session (subject, hint, last-seen = now); with a hint
\* not later than now it fails and the registry holds no session for the
\* token.
C21_AbsentTokenByHint ==
    \A t \in Tokens, u \in Users :
        (~RegHas(registry, t) /\ t \notin DOMAIN revoked) =>
            /\ LET v == validate_and_touch_session(registry, revoked, t, u, None, now)
               IN  /\ v.outcome = "inactive"
                   /\ ~RegHas(v.reg, t)
                   /\ v.reg = _prune_sessions_locked(registry, revoked, now).reg
            /\ \A h \in Expiries :
                  LET v == validate_and_touch_session(registry, revoked, t, u, h, now)
                  IN  /\ h > now =>
                            /\ v.outcome = "ok"
                            /\ RegHas(v.reg, t)
                            /\ \A i \in DOMAIN v.reg :
                                  v.reg[i].token = t => v.reg[i] = SessionInfo(u, t, h, now)
                      /\ h <= now => (v.outcome # "ok" /\ ~RegHas(v.reg, t))

\* a validation has just failed and left neither a session nor a revocation
\* for its token, the clock has passed the short hint, the registry is
\* full, and for that token the three calls go the three ways: no hint is
\* refused, the short hint is refused, the long hint creates the session
C21_Witness ==
    /\ last.op = "validate"
    /\ last.outcome # "ok"
    /\ ~RegHas(registry, last.token)
    /\ last.token \notin DOMAIN revoked
    /\ Len(registry) = MAX_CONCURRENT_SESSIONS
    /\ \E h1, h2 \in Expiries, u \in Users :
          /\ h1 <= now /\ now < h2
          /\ validate_and_touch_session(registry, revoked, last.token, u, None, now).outcome
                = "inactive"
          /\ validate_and_touch_session(registry, revoked, last.token, u, h1, now).outcome
                = "expired"
          /\ RegHas(validate_and_touch_session(registry, revoked, last.token, u, h2, now).reg,
                    last.token)

\* the decode on record is one of the token as issued, made while
\* now <= exp + leeway
DecodedInTime ==
    /\ decoded.how = "issued"
    /\ decoded.at <= issued.at + issued.ttl + decoded.leeway

C23_ExpiryAfterSignature ==
    LET exp == issued.at + issued.ttl
    IN  /\ decoded.how = "issued" =>
              /\ decoded.result.kind = "ExpiredToken" <=> decoded.at > exp + decoded.leeway
              /\ decoded.at <= exp + decoded.leeway => decoded.result.kind = "ok"
              /\ (issued.ttl = 0 /\ decoded.leeway = 0) =>
                    /\ decoded.at = issued.at => decoded.result.kind = "ok"
                    /\ decoded.at = issued.at + 1 => decoded.result.kind = "ExpiredToken"
        /\ decoded.how \in {"exp_altered", "other_key"} =>
              decoded.result.kind = "InvalidToken"
        /\ session_token # << >> =>
              \A how \in {"exp_altered", "other_key"}, L \in Leeways :
                  decode_session_token(Present(session_token, how), L, clock).kind
                      = "InvalidToken"

\* a token issued with ttl 0 has been decoded one tick after its issue,
\* without leeway, and was expired; with leeway 1 the same call succeeds,
\* and the token signed with another key is invalid, not expired
C23_Witness ==
    /\ decoded.how = "issued"
    /\ issued.ttl = 0
    /\ decoded.leeway = 0
    /\ decoded.at = issued.at + 1
    /\ decoded.result.kind = "ExpiredToken"
    /\ clock = decoded.at
    /\ decode_session_token(session_token, 1, clock).kind = "ok"
    /\ decode_session_token(Present(session_token, "other_key"), 0, clock).kind
          = "InvalidToken"

\* the horizon revoke(token) chooses in the current state: the expiry of the
\* token's session, else the token's exp claim, else now + idle-timeout
C24_Horizon(t) ==
    IF \E i \in DOMAIN registry : registry[i].token = t
    THEN RegGet(registry, t).expires_at
    ELSE IF JwtExp(t) # None THEN JwtExp(t)
    ELSE now + SESSION_IDLE_TIMEOUT_MINUTES

\* C24: in every reachable state, revoke(token) called now returns a
\* registry without a session for the token and a portal cache without an
\* entry for it; when the horizon (the removed session's expiry, else the
\* token's exp claim, else now + idle-timeout) is later than now the
\* revocation cache returned maps the token to that horizon, and when it is
\* not the revocation cache returned is the pruned one, nothing added.
C24_RevokeHorizon ==
    \A t \in BearerTokens :
        LET k == revoke_session_by_token(registry, revoked, portal, t, now)
            h == C24_Horizon(t)
            kept == {x \in DOMAIN revoked : revoked[x] > now}
        IN  /\ \A i \in DOMAIN k.reg : k.reg[i].token # t
            /\ t \notin DOMAIN k.pc
            /\ h > now => (t \in DOMAIN k.rev /\ k.rev[t] = h)
            /\ h <= now => (DOMAIN k.rev = kept /\ \A x \in kept : k.rev[x] = revoked[x])
            /\ \A x \in DOMAIN k.rev \ {t} : x \in kept /\ k.rev[x] = revoked[x]

\* a request has ended by revoking a local token whose exp claim the clock
\* has passed, and nothing is recorded for it; the portal token has a
\* session and a cache entry, and revoking it would remove both and record
\* the session's expiry, which is not now + idle-timeout; a local token
\* without session would be recorded with its exp claim
C24_Witness ==
    /\ \E r \in Requests :
          /\ request[r].pc = "done" /\ request[r].revoke
          /\ JwtExp(request[r].token) # None /\ JwtExp(request[r].token) <= now
          /\ request[r].token \notin DOMAIN revoked
    /\ \E t \in DOMAIN portal :
          LET k == revoke_session_by_token(registry, revoked, portal, t, now)
          IN  /\ RegHas(registry, t) /\ JwtExp(t) = None
              /\ RegGet(registry, t).expires_at > now
              /\ RegGet(registry, t).expires_at # now + SESSION_IDLE_TIMEOUT_MINUTES
              /\ k.rev[t] = RegGet(registry, t).expires_at
              /\ ~RegHas(k.reg, t) /\ t \notin DOMAIN k.pc
    /\ \E t \in BearerTokens :
          /\ ~RegHas(registry, t) /\ JwtExp(t) # None /\ JwtExp(t) > now
          /\ revoke_session_by_token(registry, revoked, portal, t, now).rev[t] = JwtExp(t)

\* C25: immediately after a registry operation (register,
\* validate_and_touch, revoke, revoke_all) completed at time now, the
\* registry holds no session with now >= expires_at or
\* now >= last_seen + idle-timeout: each of them pruned the expired
\* sessions first.
C25_OperationsPruneFirst ==
    last.op \in RegistryOps =>
        \A i \in DOMAIN registry :
            /\ now < registry[i].expires_at
            /\ now < registry[i].last_seen + SESSION_IDLE_TIMEOUT_MINUTES

\* the step writes the portal cache entry of token t
C26_Written(t) ==
    /\ t \in DOMAIN portal'
    /\ t \notin DOMAIN portal \/ portal'[t] # portal[t]

\* C26: in bridge authentication, a request that ends at the lookup of the
\* cached subject, found, is authenticated as that subject after a
\* successful registry validation and without a portal call; a cache miss,
\* and a cache hit whose registry validation fails (the step removes the
\* cache entry), go on to the portal call; the subject sync follows a
\* successful portal call and nothing else, the registry validation of the
\* portal's answer follows the subject sync and nothing else and is made
\* with the portal's expiry, and a portal cache entry is written only by
\* that validation's step, when it succeeded, as (subject, expiry) of the
\* portal's answer.
C26_BridgeOrder ==
    [][/\ \A r \in Requests :
            LET q == request[r]
                q2 == request'[r]
            IN  /\ (q.pc = "fetch_cached_user" /\ q2.pc = "done") =>
                      /\ q2.result = "authenticated"
                      /\ q2.external = "none"
                      /\ q.validation = "ok"
                      /\ q2.user_id = q.user_id
                /\ (q.pc = "bridge" /\ q2.pc # "bridge" /\ q2.cached \in {"miss", "purged"}) =>
                      q2.pc = "fetch_portal"
                /\ (q.pc = "validate_cached" /\ q2.pc # "validate_cached"
                    /\ validate_and_touch_session(registry, revoked, q.token, q.user_id,
                                                  q.expires_at, now).outcome # "ok") =>
                      /\ q2.pc = "fetch_portal"
                      /\ q.token \notin DOMAIN portal'
                /\ (q2.pc = "ensure_user" /\ q.pc # "ensure_user") =>
                      (q.pc = "fetch_portal" /\ q2.external = "ok")
                /\ (q2.pc = "validate_portal" /\ q.pc # "validate_portal") =>
                      q.pc = "ensure_user"
                /\ (q.pc = "validate_portal" /\ q2.pc # "validate_portal") =>
                      q2.validation =
                          IF validate_and_touch_session(registry, revoked, q.token, q.user_id,
                                                        q.expires_at, now).outcome = "ok"
                          THEN "ok" ELSE "rejected"
       /\ \A t \in BearerTokens :
            C26_Written(t) =>
                \E r \in Requests :
                    /\ request[r].pc = "validate_portal"
                    /\ request[r].token = t
                    /\ request[r].external = "ok"
                    /\ request'[r].validation = "ok"
                    /\ request'[r].result = "authenticated"
                    /\ portal'[t] = PortalSessionCacheEntry(request[r].user_id,
                                                            request[r].expires_at)
                    /\ RegHas(registry', t)
                    /\ RegGet(registry', t).user_id = request[r].user_id]_vars

\* one request has been authenticated from the cache, without a portal
\* call, and the other, whose cache hit was then refused by the registry,
\* stands before the portal call with the cache entry removed
C26_Witness ==
    \E r1, r2 \in Requests :
        /\ request[r1].pc = "done" /\ request[r1].result = "authenticated"
        /\ request[r1].bridge /\ request[r1].external = "none"
        /\ request[r2].pc = "fetch_portal" /\ request[r2].cached = "hit"
        /\ request[r2].token \notin DOMAIN portal
        /\ request[r2].token \in DOMAIN revoked

\* C27: in every reachable state, a validate_and_touch call made now that
\* fails, for whatever token, subject and hint, returns a registry that
\* still holds, unchanged, every session of another token that is not
\* expired at now, also when the registry is full.
C27_FailedValidateFrame ==
    \A t \in Tokens, u \in Users, h \in Hints :
        LET v == ValidateNow(t, u, h)
        IN  v.outcome # "ok" =>
                \A i \in DOMAIN registry :
                    (registry[i].token # t /\ Live(registry[i], now)) =>
                        \E j \in DOMAIN v.reg : v.reg[j] = registry[i]

\* C28: the step that handles a failed or timed-out portal call of a
\* request leaves no state that rejects its token: whatever subject and
\* expiry later than now the portal could have answered with and the
\* registry would have accepted before that step, a request presenting the
\* same token and getting that answer right after the step is accepted too.
C28_TransientFailureLeavesNoBar ==
    [][\A r \in Requests :
          (/\ request[r].pc = "revoke"
           /\ request[r].external = "failed"
           /\ request'[r].pc = "done") =>
              \A u \in Users, h \in Expiries :
                  (/\ h > now
                   /\ validate_and_touch_session(registry, revoked, request[r].token,
                                                 u, h, now).outcome = "ok") =>
                      validate_and_touch_session(registry', revoked', request[r].token,
                                                 u, h, now).outcome = "ok"]_vars

C30_LocalTokenWithoutSubject ==
    [][\A r \in Requests :
          LET q == request[r]
              q2 == request'[r]
          IN  /\ (q.pc = "idle" /\ q2.pc # "idle" /\ q2.decoded = "ok"
                  /\ JwtSub(q2.token) = None) =>
                    q2.pc = "revoke" /\ ~q2.bridge
              /\ (Ends(r) /\ q.decoded = "ok" /\ JwtSub(q.token) = None) =>
                    /\ q2.result = "unauthenticated"
                    /\ q2.revoke /\ ~q2.bridge
                    /\ q2.validation = "none" /\ q2.external = "none"
                    /\ ~RegHas(registry', q.token)
                    /\ JwtExp(q.token) > now =>
                          (q.token \in DOMAIN revoked' /\ revoked'[q.token] = JwtExp(q.token))
              /\ (q.pc = "fetch_user" /\ q2.pc # "fetch_user" /\ q2.result # "authenticated") =>
                    q2.pc = "revoke" /\ q2.validation = "ok"
              /\ (Ends(r) /\ q.pc = "revoke" /\ q.decoded = "ok" /\ JwtSub(q.token) # None) =>
                    /\ q.validation = "ok"
                    /\ q2.result = "unauthenticated"
                    /\ q2.revoke /\ ~q2.bridge
                    /\ ~RegHas(registry', q.token)]_vars

\* one request has presented the token without sub claim and ended
\* Unauthenticated, the token revoked until its exp; the other has presented
\* a token whose subject was gone after the registry accepted it, and ended
\* Unauthenticated, its session removed and the token revoked
C30_Witness ==
    \E r1, r2 \in Requests :
        /\ request[r1].pc = "done" /\ request[r1].decoded = "ok"
        /\ JwtSub(request[r1].token) = None
        /\ request[r1].revoke /\ request[r1].result = "unauthenticated"
        /\ request[r1].token \in DOMAIN revoked
        /\ request[r2].pc = "done" /\ request[r2].decoded = "ok"
        /\ JwtSub(request[r2].token) # None
        /\ request[r2].validation = "ok" /\ request[r2].revoke
        /\ request[r2].result = "unauthenticated"
        /\ request[r2].token \in DOMAIN revoked
        /\ ~RegHas(registry, request[r2].token)
====
